---- MODULE Spec2Model ----
(***************************************************************************)
(* FastMRIWorkload (algorithmic_efficiency/workloads/fastmri/fastmri_jax/  *)
(* workload.py): the activation selector, the loss, the per-batch          *)
(* evaluator run on every device, and the split-level evaluation loop with *)
(* its cache of per-split input iterators.                                 *)
(*                                                                         *)
(* Arrays are float32 (jax's default dtype).  A finite non-negative        *)
(* float32 is the record [m |-> mantissa, e |-> exponent] of value         *)
(* m * 2^e in canonical form: m = 0 and e = MinExp (zero), or              *)
(* m < 2^23 and e = MinExp (subnormal), or 2^23 <= m < 2^24 (normal).      *)
(* Every operation rounds to nearest, ties to even, as IEEE 754 does.      *)
(***************************************************************************)
EXTENDS Integers, Sequences, FiniteSets, Bags, TLC

\* ---------------------------------------------------------------- bounds
\* Largest num_examples a call passes.
MaxExamples == 3
\* Largest global_batch_size a call passes.
MaxBatchSize == 2
\* Number of _eval_model_on_split calls in one run of the harness.
MaxCalls == 2
\* jax.local_device_count() of the host.
NumDevices == 2
\* Number of elements of one example (all non-batch dimensions, flattened).
ImgLen == 2
\* Largest batch of the loss_fn and output_activation_fn inputs.
MaxBatch == 2

\* Python's None, and an absent entry of a dictionary.
None == <<>>

\* ------------------------------------------------------- float32 format
\* 2^23: the smallest mantissa of a normal float32.
TwoP23 == 8388608
\* 2^24: one more than the largest mantissa (24 significant bits).
TwoP24 == 16777216
\* Exponent of the smallest subnormal, 2^-149.
MinExp == -149

RECURSIVE Pow2(_)
Pow2(n) == IF n <= 0 THEN 1 ELSE 2 * Pow2(n - 1)

FZero == [m |-> 0, e |-> MinExp]

\* q + r/d (0 <= r < d) rounded to an integer, ties to even.
RoundNearestEven(q, r, d) ==
  IF 2 * r > d \/ (2 * r = d /\ q % 2 = 1) THEN q + 1 ELSE q

\* Number of low bits k (k < 2^31) must drop to fit 24 bits.
RECURSIVE ExcessBits(_)
ExcessBits(k) == IF k < TwoP24 THEN 0 ELSE 1 + ExcessBits(k \div 2)

\* m * 2^e with m <= 2^24, brought to canonical form (exact).
RECURSIVE Canon(_, _)
Canon(m, e) ==
  IF m = 0 THEN FZero
  ELSE IF m = TwoP24 THEN [m |-> TwoP23, e |-> e + 1]
  ELSE IF m < TwoP23 /\ e > MinExp THEN Canon(2 * m, e - 1)
  ELSE [m |-> m, e |-> e]

\* Operators take their arguments by name; where an argument is used
\* several times the operator first binds its value (x \in {argument}).

\* The float32 nearest to k * 2^e, for an integer 0 <= k < 2^31, e >= MinExp.
FromInt(k0, e) ==
  CHOOSE r \in {Canon(RoundNearestEven(k \div d, k % d, d), e + s) :
                  k \in {k0}, s \in {ExcessBits(k0)}, d \in {Pow2(ExcessBits(k0))}} : TRUE

\* a + b for two non-negative floats given by value.
FAddValues(a, b) ==
  LET hi == IF a.e >= b.e THEN a ELSE b
      lo == IF a.e >= b.e THEN b ELSE a
      sh == hi.e - lo.e
  IN  IF lo.m = 0 THEN hi
      ELSE IF hi.m = 0 THEN lo
      ELSE IF sh >= 26 THEN hi
      ELSE LET d  == Pow2(sh)
               M  == hi.m + (lo.m \div d)
               r  == lo.m % d
           IN  IF M < TwoP24
               THEN Canon(RoundNearestEven(M, r, d), hi.e)
               ELSE LET q  == M \div 2
                        up == (M % 2 = 1) /\ (r > 0 \/ q % 2 = 1)
                    IN  Canon(IF up THEN q + 1 ELSE q, hi.e + 1)

\* float32 addition of two non-negative floats.
FAdd(x, y) == CHOOSE r \in {FAddValues(a, b) : a \in {x}, b \in {y}} : TRUE

\* Number of doublings (at most room) that bring m up to lim.
RECURSIVE ShiftUp(_, _, _)
ShiftUp(m, lim, room) ==
  IF m >= lim \/ room = 0 THEN 0 ELSE 1 + ShiftUp(2 * m, lim, room - 1)

\* float32 division of a non-negative float by the float of the integer
\* n, 1 <= n < 64.  The mantissa is scaled until the quotient has 24
\* significant bits, or until the exponent reaches MinExp (a subnormal
\* quotient), and the quotient is rounded once.
FDivInt(x, n) ==
  CHOOSE r \in {IF a.m = 0 THEN FZero
                ELSE Canon(RoundNearestEven((a.m * Pow2(j)) \div n,
                                            (a.m * Pow2(j)) % n, n), a.e - j) :
                  a \in {x}, j \in {ShiftUp(x.m, n * TwoP23, x.e - MinExp)}} : TRUE

\* The results of 0/0 and of x/0, x > 0.
FNaN == [nan |-> TRUE]
FInf == [inf |-> TRUE]

\* Left-to-right float32 sum of a sequence of floats.
RECURSIVE FSumTo(_, _)
FSumTo(xs, n) == IF n = 0 THEN FZero ELSE FAdd(FSumTo(xs, n - 1), xs[n])

FSum(xs0) == CHOOSE r \in {FSumTo(xs, Len(xs)) : xs \in {xs0}} : TRUE

RECURSIVE NatSumTo(_, _)
NatSumTo(xs, n) == IF n = 0 THEN 0 ELSE NatSumTo(xs, n - 1) + xs[n]

NatSum(xs0) == CHOOSE r \in {NatSumTo(xs, Len(xs)) : xs \in {xs0}} : TRUE

Abs(k) == IF k < 0 THEN -k ELSE k

\* ---------------------------------------------------------------- tensors
\* A float32 tensor of shape (batch, ImgLen): [scale |-> e, data |-> rows],
\* every element the float k * 2^scale for the integer k of its row,
\* |k| <= 2^24 (so each k * 2^scale is a float32 exactly).

\* k, an integer, rounded to the nearest integer with 24 significant bits.
RoundInt(k0) ==
  CHOOSE r \in {IF k < 0 THEN -(RoundNearestEven((-k) \div d, (-k) % d, d) * d)
                ELSE RoundNearestEven(k \div d, k % d, d) * d :
                  k \in {k0}, d \in {Pow2(ExcessBits(Abs(k0)))}} : TRUE

Devices == 1 .. NumDevices
Pixels == 1 .. ImgLen

\* spec.ForwardPassMode and spec.LossType.
ForwardPassMode == {"TRAIN", "EVAL"}
LossType == {"SOFTMAX_CROSS_ENTROPY", "SIGMOID_CROSS_ENTROPY",
             "MEAN_SQUARED_ERROR", "CTC_LOSS", "MEAN_ABSOLUTE_ERROR"}

\* prng.split(rng, n): n keys derived from rng.
PrngSplit(rng, n) == [i \in 1 .. n |-> Append(rng, i)]

\* models.UNet(dropout_rate).apply({'params': params}, inputs,
\* rngs={'dropout': rng}, train): the network adds its one parameter to
\* every element; dropout, active only in training with a positive rate,
\* zeroes the elements the key selects.
UNetApply(params, inputs, rng, train, dropout_rate) ==
  LET keep(i, j) == ~(train /\ dropout_rate > 0) \/ (rng[Len(rng)] + i + j) % 2 = 0
  IN  CHOOSE r \in {[scale |-> x.scale,
                     data  |-> [i \in 1 .. Len(x.data) |->
                                 [j \in Pixels |->
                                   IF keep(i, j) THEN RoundInt(x.data[i][j] + bias)
                                   ELSE 0]]] :
                      x \in {inputs}, bias \in {params.bias}} : TRUE

\* models.UNet().init({'params': rng}, fake_batch)['params'].
UNetInit(rng) == [bias |-> rng[Len(rng)] % 2]

\* jax.tree_map(lambda x: spec.ShapeTuple(x.shape), params)
ParamShapes(params) == [k \in DOMAIN params |-> <<>>]

\* jax_utils.replicate(params): one copy per local device.
Replicate(params) == [d \in Devices |-> params]

\* A forward pass that hands the model state it was given back.
model_fn_keeps_state(params, augmented_and_preprocessed_input_batch, model_state, mode, rng, dropout_rate, aux_dropout_rate, update_batch_norm) ==
  <<UNetApply(params, augmented_and_preprocessed_input_batch.inputs, rng,
              mode = "TRAIN", dropout_rate),
    model_state>>

\* FastMRIWorkload.model_fn: <<logits, auxiliary state>>.
model_fn(params, augmented_and_preprocessed_input_batch, model_state, mode, rng, dropout_rate, aux_dropout_rate, update_batch_norm) ==
  LET train  == mode = "TRAIN"
      logits == UNetApply(params, augmented_and_preprocessed_input_batch.inputs,
                          rng, train, dropout_rate)
  IN  <<logits, None>>

\* jax.nn.softmax and jax.nn.sigmoid, kept as terms over their argument.
Softmax(z) == [op |-> "softmax", of |-> z]
Sigmoid(z) == [op |-> "sigmoid", of |-> z]

\* The dictionary of output_activation_fn: its keys.
ActivationKeys == {"SOFTMAX_CROSS_ENTROPY", "SIGMOID_CROSS_ENTROPY",
                   "MEAN_SQUARED_ERROR", "MEAN_ABSOLUTE_ERROR"}

\* activation_fn[loss_type](logits_batch), for a key of the dictionary.
ActivationOf(loss_type, z) ==
  CASE loss_type = "SOFTMAX_CROSS_ENTROPY" -> Softmax(z)
    [] loss_type = "SIGMOID_CROSS_ENTROPY" -> Sigmoid(z)
    [] loss_type = "MEAN_SQUARED_ERROR"    -> z
    [] loss_type = "MEAN_ABSOLUTE_ERROR"   -> z

\* A lookup that falls back to the identity for a missing key.
output_activation_fn_default(logits_batch, loss_type) ==
  IF loss_type \in ActivationKeys
  THEN [value |-> ActivationOf(loss_type, logits_batch)]
  ELSE [value |-> logits_batch]

\* FastMRIWorkload.output_activation_fn: the value returned, or the
\* KeyError the dictionary lookup raises.
output_activation_fn(logits_batch, loss_type) ==
  IF loss_type \in ActivationKeys
  THEN [value |-> ActivationOf(loss_type, logits_batch)]
  ELSE [raised |-> "KeyError"]

\* jnp.abs(outputs_batch - label_batch) of one example: one float per
\* element.
AbsDiff(outputs_batch, label_batch, i) ==
  [j \in Pixels |->
    FromInt(Abs(outputs_batch.data[i][j] - label_batch.data[i][j]),
            outputs_batch.scale)]

\* .mean(axis=tuple(range(1, ndim))): the float32 sum of the elements,
\* divided by their number.
Mean(xs0) == CHOOSE r \in {FDivInt(FSum(xs), Len(xs)) : xs \in {xs0}} : TRUE

\* The loss with a regularization term (the smallest float) added.
loss_fn_regularized(label_batch, outputs_batch) ==
  CHOOSE r \in {[i \in 1 .. Len(outputs.data) |->
                   FAdd(Mean(AbsDiff(outputs, label, i)), FromInt(1, MinExp))] :
                  label \in {label_batch}, outputs \in {outputs_batch}} : TRUE

\* FastMRIWorkload.loss_fn: one float per example.
loss_fn(label_batch, outputs_batch) ==
  CHOOSE r \in {[i \in 1 .. Len(outputs.data) |-> Mean(AbsDiff(outputs, label, i))] :
                  label \in {label_batch}, outputs \in {outputs_batch}} : TRUE

\* fastmri.ssim.ssim(targets, outputs, mean, std, volume_max): one score
\* per example, 1.0 for a reconstruction equal to its target; stood in for
\* by the fraction of elements reconstructed exactly.
ssim(targets, outputs, mean, std, volume_max) ==
  CHOOSE r \in {[i \in 1 .. Len(o.data) |->
                   FDivInt(FromInt(Cardinality({j \in Pixels :
                                      o.data[i][j] = t.data[i][j]}), 0),
                           ImgLen)] :
                  t \in {targets}, o \in {outputs}} : TRUE

MetricKeys == {"ssim", "loss", "weight"}

\* The arguments _eval_model passes to model_fn besides params, batch, rng.
EvalForwardArgs ==
  [model_state |-> None, mode |-> "EVAL", dropout_rate |-> 0,
   aux_dropout_rate |-> None, update_batch_norm |-> FALSE]

\* The body of _eval_model on one device, before the psum: the metrics of
\* that device's shard.  batch['weights'] holds 0.0 and 1.0, whose float32
\* sums are the integers themselves.
LocalMetrics(params, batch, rng) ==
  LET a == EvalForwardArgs
  IN  CHOOSE metrics \in
        {[ssim   |-> FSum(ssim(batch.targets, outputs, batch.mean, batch.std,
                               batch.volume_max)),
          loss   |-> FSum(loss_fn(batch.targets, outputs)),
          weight |-> NatSum(batch.weights)] :
           outputs \in {model_fn(params, batch, a.model_state, a.mode, rng,
                                 a.dropout_rate, a.aux_dropout_rate,
                                 a.update_batch_norm)[1]}} : TRUE

\* jax.lax.psum(metrics, axis_name='batch'): on every device, the sum over
\* all devices of each entry.
PsumValues(local) ==
  CHOOSE r \in {[d \in Devices |-> sum] :
                  sum \in {[ssim   |-> FSum([x \in Devices |-> local[x].ssim]),
                            loss   |-> FSum([x \in Devices |-> local[x].loss]),
                            weight |-> NatSum([x \in Devices |-> local[x].weight])]}} : TRUE

Psum(local) == CHOOSE r \in {PsumValues(l) : l \in {local}} : TRUE

\* FastMRIWorkload._eval_model under jax.pmap: params, batch and rng are
\* mapped over their leading (device) axis; the result maps each metric to
\* its array over the devices.
_eval_model(params, batch, rng) ==
  CHOOSE r \in {[k \in MetricKeys |-> [d \in Devices |-> synced[d][k]]] :
                  synced \in {Psum([d \in Devices |->
                                     LocalMetrics(params[d], batch[d], rng[d])])}} : TRUE

\* --------------------------------------------------------- input pipeline
Splits == {"validation", "test"}
RngKeys == {<<0>>, <<1>>}

\* Elements are multiples of 2^-24: element 2^24 is 1.0.
DataScale == -24

Image(k) == [j \in Pixels |-> k]

\* A device's shard of a batch: examples with constant images.
Shard(ins, tgs, ws) ==
  [inputs     |-> [scale |-> DataScale, data |-> [i \in 1 .. Len(ins) |-> Image(ins[i])]],
   targets    |-> [scale |-> DataScale, data |-> [i \in 1 .. Len(tgs) |-> Image(tgs[i])]],
   mean       |-> [i \in 1 .. Len(ins) |-> 0],
   std        |-> [i \in 1 .. Len(ins) |-> 1],
   volume_max |-> [i \in 1 .. Len(ins) |-> 1],
   weights    |-> ws]

BatchKinds == {"large", "small", "padded"}

\* The batches of the data: "large" holds on every device one example
\* whose input is 1.0 everywhere and whose target is 0; "small" holds one
\* whose input is 2^-24; "padded" holds one real example on the first
\* device and zero-weight padding everywhere else.
BatchOf(kind) ==
  [d \in Devices |->
    CASE kind = "large"  -> Shard(<<TwoP24>>, <<0>>, <<1>>)
      [] kind = "small"  -> Shard(<<1>>, <<0>>, <<1>>)
      [] kind = "padded" -> IF d = 1 THEN Shard(<<1, 0>>, <<0, 0>>, <<1, 0>>)
                            ELSE Shard(<<0, 0>>, <<0, 0>>, <<0, 0>>)]

\* ------------------------------------------------------------------ state
VARIABLES
  dataset,        \* split -> the batches its input pipeline repeats
  _eval_iters,    \* self._eval_iters: split -> None (absent) or iterator
  _param_shapes,  \* self._param_shapes
  params,         \* the parameters the harness holds (None before init)
  model_state,    \* the auxiliary state the harness holds
  pc,             \* where the control thread is
  frame,          \* the locals of the current (or last) _eval_model_on_split
  ret,            \* the value the last call returned (None: none)
  raised,         \* the exception that ended the run (None: none)
  calls,          \* _eval_model_on_split calls made so far
  build_calls,    \* split -> number of build_input_queue calls
  due,            \* split -> sum of ceil(num_examples / global_batch_size)
  eval_log,       \* split -> what the last returned call of the split did
  fn_args,        \* the arguments of a loss_fn / output_activation_fn call
  fn_ret          \* what that call returned

vars == <<dataset, _eval_iters, _param_shapes, params, model_state, pc, frame,
          ret, raised, calls, build_calls, due, eval_log, fn_args, fn_ret>>

workload == <<dataset, _eval_iters, _param_shapes, params, model_state, pc,
              frame, ret, raised, calls, build_calls, due, eval_log>>

\* All orders of the three batch kinds.
Orders ==
  {s \in [1 .. 3 -> BatchKinds] : \A k \in BatchKinds : \E i \in 1 .. 3 : s[i] = k}

\* build_input_queue(data_rng, split, data_dir, global_batch_size,
\* repeat_final_dataset): a fresh iterator at the first batch of the split.
build_input_queue(data_rng, split, data_dir, global_batch_size, repeat_final_dataset) ==
  [split |-> split, data_rng |-> data_rng, data_dir |-> data_dir,
   global_batch_size |-> global_batch_size,
   repeat_final_dataset |-> repeat_final_dataset, pos |-> 0]

\* next(iterator): <<the batch, the iterator advanced>>; the batches repeat
\* indefinitely.
IterNext(it) ==
  LET seq == dataset[it.split]
  IN  <<BatchOf(seq[(it.pos % Len(seq)) + 1]), [it EXCEPT !.pos = @ + 1]>>

\* The cache test always finding the split absent.
NotCachedAlways(split) == TRUE

\* `split not in self._eval_iters`
NotCached(split) == _eval_iters[split] = None

\* The cache replaced by one that holds the new iterator only.
CacheStoreOnly(iters, split, it) ==
  [s \in DOMAIN iters |-> IF s = split THEN it ELSE None]

\* self._eval_iters[split] = iterator
CacheStore(iters, split, it) == [iters EXCEPT ![split] = it]

\* The quotient rounded down.
NumBatchesFloor(num_examples, global_batch_size) ==
  num_examples \div global_batch_size

\* int(math.ceil(num_examples / global_batch_size)): the quotient is a
\* double, exact for integers below 2^53.
NumBatches(num_examples, global_batch_size) ==
  IF num_examples % global_batch_size = 0
  THEN num_examples \div global_batch_size
  ELSE num_examples \div global_batch_size + 1

\* total_metrics = {'ssim': 0., 'loss': 0., 'weight': 0.}
ZeroMetrics == [ssim |-> FZero, loss |-> FZero, weight |-> 0]

\* The sums of every device added, not those of one device.
AccumulateAllDevices(total_metrics, synced_metrics) ==
  [ssim   |-> FAdd(total_metrics.ssim, FSum(synced_metrics["ssim"])),
   loss   |-> FAdd(total_metrics.loss, FSum(synced_metrics["loss"])),
   weight |-> total_metrics.weight + NatSum(synced_metrics["weight"])]

\* The running sums dropped: only the last batch is kept.
AccumulateLast(total_metrics, synced_metrics) ==
  [ssim   |-> synced_metrics["ssim"][1],
   loss   |-> synced_metrics["loss"][1],
   weight |-> synced_metrics["weight"][1]]

\* {k: v + synced_metrics[k][0] for k, v in total_metrics.items()}
Accumulate(total_metrics, synced_metrics) ==
  [ssim   |-> FAdd(total_metrics.ssim, synced_metrics["ssim"][1]),
   loss   |-> FAdd(total_metrics.loss, synced_metrics["loss"][1]),
   weight |-> total_metrics.weight + synced_metrics["weight"][1]]

\* float(v.item() / num_examples): float32 division; by zero it yields
\* nan (0/0) or inf.
Quotient(v, w) ==
  IF w = 0 THEN (IF v.m = 0 THEN FNaN ELSE FInf) ELSE FDivInt(v, w)

\* The sums divided by the num_examples argument of the call.
FinalMetricsByArg(total_metrics, num_examples) ==
  [k \in DOMAIN total_metrics \ {"weight"} |->
    Quotient(total_metrics[k], num_examples)]

\* num_examples = total_metrics.pop('weight'); the returned dictionary.
\* The parameter num_examples is the argument of the call, which the
\* assignment replaces.
FinalMetrics(total_metrics, num_examples) ==
  LET weight == total_metrics.weight
  IN  [k \in DOMAIN total_metrics \ {"weight"} |->
        Quotient(total_metrics[k], weight)]

\* A handler that swallows the exception and stays at the failed step.
PropagateRetry(at) == at

\* An exception in the loop has no handler: it leaves the call.
Propagate(at) == "raised"

\* FastMRIWorkload.init_model_fn: what it records and what it returns.
init_model_fn(rng) ==
  LET p == UNetInit(rng)
  IN  [_param_shapes |-> ParamShapes(p), returns |-> <<Replicate(p), None>>]

\* The state after the workload is constructed, before any data is named.
Constructed ==
  /\ _eval_iters = [s \in Splits |-> None]
  /\ _param_shapes = None
  /\ params = None
  /\ model_state = <<"unset">>
  /\ pc = "idle"
  /\ frame = None
  /\ ret = None
  /\ raised = None
  /\ calls = 0
  /\ build_calls = [s \in Splits |-> 0]
  /\ due = [s \in Splits |-> 0]
  /\ eval_log = [s \in Splits |-> None]

Init ==
  /\ dataset = [validation |-> <<"small", "padded", "large">>,
                test |-> <<"padded", "small", "large">>]
  /\ Constructed
  /\ fn_args = None
  /\ fn_ret = None

\* The harness calls init_model_fn(rng) and keeps what it returns.
InitModelFn(rng) ==
  /\ pc = "idle"
  /\ params = None
  /\ LET r == init_model_fn(rng)
     IN  /\ _param_shapes' = r._param_shapes
         /\ params' = r.returns[1]
         /\ model_state' = r.returns[2]
  /\ UNCHANGED <<dataset, _eval_iters, pc, frame, ret, raised, calls,
                 build_calls, due, eval_log, fn_args, fn_ret>>

\* _eval_model_on_split up to the loop (lines 121-135).
StartEval(split, num_examples, global_batch_size, rng, data_dir) ==
  /\ pc = "idle"
  /\ params # None
  /\ calls < MaxCalls
  /\ LET keys      == PrngSplit(rng, 2)
         data_rng  == keys[1]
         model_rng == keys[2]
         build     == NotCached(split)
     IN  /\ _eval_iters' =
              IF build
              THEN CacheStore(_eval_iters, split,
                     build_input_queue(data_rng, split, data_dir,
                                       global_batch_size, TRUE))
              ELSE _eval_iters
         /\ build_calls' = IF build THEN [build_calls EXCEPT ![split] = @ + 1]
                           ELSE build_calls
         /\ frame' = [split |-> split, num_examples |-> num_examples,
                      global_batch_size |-> global_batch_size,
                      rng |-> rng, data_dir |-> data_dir,
                      total_metrics |-> ZeroMetrics,
                      num_batches |-> NumBatches(num_examples, global_batch_size),
                      eval_rngs |-> PrngSplit(model_rng, NumDevices),
                      i |-> 0, batch |-> None, synced_metrics |-> None,
                      pulled |-> <<>>, next_calls |-> 0, eval_calls |-> 0,
                      forward |-> None, rounded |-> FALSE]
  /\ pc' = "loop"
  /\ ret' = None
  /\ calls' = calls + 1
  /\ due' = [due EXCEPT ![split] =
               @ + (num_examples + global_batch_size - 1) \div global_batch_size]
  /\ UNCHANGED <<dataset, _param_shapes, params, model_state, raised, eval_log,
                 fn_args, fn_ret>>

\* build_input_queue raises (a missing split): nothing is cached.
StartEvalBuildRaises(split) ==
  /\ pc = "idle"
  /\ params # None
  /\ calls < MaxCalls
  /\ NotCached(split)
  /\ build_calls' = [build_calls EXCEPT ![split] = @ + 1]
  /\ calls' = calls + 1
  /\ pc' = "raised"
  /\ ret' = None
  /\ raised' = [in |-> "build_input_queue", split |-> split]
  /\ UNCHANGED <<dataset, _eval_iters, _param_shapes, params, model_state,
                 frame, due, eval_log, fn_args, fn_ret>>

\* batch = next(self._eval_iters[split])
Pull ==
  /\ pc = "loop"
  /\ frame.i < frame.num_batches
  /\ LET nx == IterNext(_eval_iters[frame.split])
     IN  /\ frame' = [frame EXCEPT !.batch = nx[1],
                                   !.pulled = Append(@, _eval_iters[frame.split].pos),
                                   !.next_calls = @ + 1]
         /\ _eval_iters' = [_eval_iters EXCEPT ![frame.split] = nx[2]]
  /\ pc' = "eval"
  /\ UNCHANGED <<dataset, _param_shapes, params, model_state, ret, raised,
                 calls, build_calls, due, eval_log, fn_args, fn_ret>>

\* next(...) raises.
PullRaises ==
  /\ pc = "loop"
  /\ frame.i < frame.num_batches
  /\ frame' = [frame EXCEPT !.next_calls = @ + 1]
  /\ pc' = Propagate(pc)
  /\ raised' = [in |-> "next", split |-> frame.split]
  /\ UNCHANGED <<dataset, _eval_iters, _param_shapes, params, model_state, ret,
                 calls, build_calls, due, eval_log, fn_args, fn_ret>>

\* Whether a + b is not a float32, so that FAdd rounds.
AddRounds(a, b) ==
  LET hi == IF a.e >= b.e THEN a ELSE b
      lo == IF a.e >= b.e THEN b ELSE a
      sh == hi.e - lo.e
  IN  /\ lo.m # 0
      /\ hi.m # 0
      /\ \/ sh >= 26
         \/ lo.m % Pow2(sh) # 0
         \/ /\ hi.m + (lo.m \div Pow2(sh)) >= TwoP24
            /\ (hi.m + (lo.m \div Pow2(sh))) % 2 = 1

\* synced_metrics = self._eval_model(params, batch, eval_rngs) and the
\* update of total_metrics.
EvalBatch ==
  /\ pc = "eval"
  /\ \E synced_metrics \in {_eval_model(params, frame.batch, frame.eval_rngs)} :
       frame' = [frame EXCEPT
                   !.synced_metrics = synced_metrics,
                   !.total_metrics = Accumulate(@, synced_metrics),
                   !.eval_calls = @ + 1,
                   !.forward = EvalForwardArgs,
                   !.rounded = @ \/ AddRounds(frame.total_metrics.ssim,
                                              synced_metrics["ssim"][1])
                                 \/ AddRounds(frame.total_metrics.loss,
                                              synced_metrics["loss"][1]),
                   !.i = @ + 1]
  /\ pc' = "loop"
  /\ UNCHANGED <<dataset, _eval_iters, _param_shapes, params, model_state, ret,
                 raised, calls, build_calls, due, eval_log, fn_args, fn_ret>>

\* self._eval_model(...) raises.
EvalRaises ==
  /\ pc = "eval"
  /\ frame' = [frame EXCEPT !.eval_calls = @ + 1]
  /\ pc' = Propagate(pc)
  /\ raised' = [in |-> "_eval_model", split |-> frame.split]
  /\ UNCHANGED <<dataset, _eval_iters, _param_shapes, params, model_state, ret,
                 calls, build_calls, due, eval_log, fn_args, fn_ret>>

\* Lines 143-144 after a loop of at least one batch.
Finish ==
  /\ pc = "loop"
  /\ frame.i = frame.num_batches
  /\ frame.num_batches > 0
  /\ ret' = FinalMetrics(frame.total_metrics, frame.num_examples)
  /\ eval_log' = [eval_log EXCEPT ![frame.split] =
                    [num_examples |-> frame.num_examples,
                     global_batch_size |-> frame.global_batch_size,
                     pulled |-> frame.pulled,
                     rounded |-> frame.rounded,
                     metrics |-> ret']]
  /\ pc' = "idle"
  /\ UNCHANGED <<dataset, _eval_iters, _param_shapes, params, model_state,
                 frame, raised, calls, build_calls, due, fn_args, fn_ret>>

\* Lines 143-144 after a loop of no batch: total_metrics still holds the
\* Python floats 0., which have no item(): AttributeError.
FinishRaises ==
  /\ pc = "loop"
  /\ frame.i = frame.num_batches
  /\ frame.num_batches = 0
  /\ pc' = "raised"
  /\ raised' = [in |-> "item", split |-> frame.split]
  /\ UNCHANGED <<dataset, _eval_iters, _param_shapes, params, model_state,
                 frame, ret, calls, build_calls, due, eval_log, fn_args, fn_ret>>

\* The inputs of the calls of a run: the smallest and largest counts and
\* batch sizes, and two environments that differ in rng and data_dir.
ExampleCounts == {0, 1, MaxExamples}
BatchSizes == {1, MaxBatchSize}
CallEnvs == {[rng |-> <<0>>, data_dir |-> "dirA"],
             [rng |-> <<1>>, data_dir |-> "dirB"]}

\* A run of the harness: the model is initialised, then splits are
\* evaluated again and again until a call raises.
Next ==
  \/ \E rng \in RngKeys : InitModelFn(rng)
  \/ \E split \in Splits, num_examples \in ExampleCounts,
        global_batch_size \in BatchSizes, env \in CallEnvs :
       StartEval(split, num_examples, global_batch_size, env.rng, env.data_dir)
  \/ \E split \in Splits : StartEvalBuildRaises(split)
  \/ Pull
  \/ PullRaises
  \/ EvalBatch
  \/ EvalRaises
  \/ Finish
  \/ FinishRaises

Spec == Init /\ [][Next]_vars

\* ----------------------------------------------- one evaluation per split
\* Every split is evaluated once, from a fresh iterator, with any count
\* and batch size; the two splits hold the same batches, "validation" in
\* any order.
InitFresh ==
  /\ dataset \in {[validation |-> s, test |-> <<"padded", "small", "large">>] :
                    s \in Orders}
  /\ Constructed
  /\ fn_args = None
  /\ fn_ret = None

FreshEval(split, num_examples, global_batch_size) ==
  /\ NotCached(split)
  /\ StartEval(split, num_examples, global_batch_size, <<0>>, "dirA")

NextFresh ==
  \/ \E rng \in RngKeys : InitModelFn(rng)
  \/ \E split \in Splits, num_examples \in 0 .. MaxExamples,
        global_batch_size \in 1 .. MaxBatchSize :
       FreshEval(split, num_examples, global_batch_size)
  \/ Pull
  \/ EvalBatch
  \/ Finish
  \/ FinishRaises

\* The control thread keeps running the call it is in.
SpecFresh ==
  /\ InitFresh
  /\ [][NextFresh]_vars
  /\ WF_vars(Pull \/ EvalBatch \/ Finish \/ FinishRaises)

\* ------------------------------------------------- calls of the functions
\* A tensor of n examples: example i holds the row rotated by i - 1.
Rotations(scale, row, n) ==
  [scale |-> scale,
   data  |-> [i \in 1 .. n |-> [j \in Pixels |-> row[((j + i - 2) % ImgLen) + 1]]]]

\* Elements at the bottom of the float32 range (multiples of 2^-149, up to
\* the normal number 2^-125) and their negatives.
LossElements == {-1, 0, 1, TwoP24}

LossInputs ==
  {[label_batch   |-> Rotations(MinExp, l, n),
    outputs_batch |-> Rotations(MinExp, o, n)] :
     l \in [Pixels -> LossElements], o \in [Pixels -> LossElements],
     n \in 1 .. MaxBatch}

InitLoss ==
  /\ dataset = [s \in Splits |-> <<"small", "padded", "large">>]
  /\ Constructed
  /\ fn_args \in LossInputs
  /\ fn_ret = None

\* loss_fn(label_batch, outputs_batch) is called and returns.
LossFn ==
  /\ fn_ret = None
  /\ fn_ret' = loss_fn(fn_args.label_batch, fn_args.outputs_batch)
  /\ UNCHANGED <<workload, fn_args>>

NextLoss == LossFn

SpecLoss == InitLoss /\ [][NextLoss]_vars

\* The members of spec.LossType, and a value that is none of them.
LossKinds == LossType \cup {"UNKNOWN"}

ActivationInputs ==
  {[logits_batch |-> Rotations(DataScale, z, n), loss_type |-> t] :
     z \in [Pixels -> {-1, 0, 1}], n \in 1 .. MaxBatch, t \in LossKinds}

InitActivation ==
  /\ dataset = [s \in Splits |-> <<"small", "padded", "large">>]
  /\ Constructed
  /\ fn_args \in ActivationInputs
  /\ fn_ret = None

\* output_activation_fn(logits_batch, loss_type) is called and returns
\* or raises.
OutputActivationFn ==
  /\ fn_ret = None
  /\ fn_ret' = output_activation_fn(fn_args.logits_batch, fn_args.loss_type)
  /\ UNCHANGED <<workload, fn_args>>

NextActivation == OutputActivationFn

SpecActivation == InitActivation /\ [][NextActivation]_vars

\* ------------------------------------------------------------- properties
\* The kinds for which output_activation_fn is the identity, and the kinds
\* it recognises.
IdentityKinds == {"MEAN_SQUARED_ERROR", "MEAN_ABSOLUTE_ERROR"}
RecognisedKinds ==
  IdentityKinds \cup {"SOFTMAX_CROSS_ENTROPY", "SIGMOID_CROSS_ENTROPY"}

\* C6: output_activation_fn returns its input unchanged for the
\* mean-squared-error and mean-absolute-error kinds, and a kind outside
\* the recognised ones makes the call fail with a lookup error (KeyError)
\* instead of returning a value.
C6_ActivationSelector ==
  fn_ret # None =>
    /\ fn_args.loss_type \in IdentityKinds =>
         fn_ret = [value |-> fn_args.logits_batch]
    /\ fn_args.loss_type \notin RecognisedKinds =>
         fn_ret = [raised |-> "KeyError"]

\* A call with a kind that is not recognised has raised.
C6_Witness ==
  /\ fn_ret # None
  /\ fn_args # None
  /\ "loss_type" \in DOMAIN fn_args
  /\ fn_args.loss_type \notin RecognisedKinds
  /\ "raised" \in DOMAIN fn_ret

\* Example i of the outputs equals example i of the targets.
RowsMatch(i) ==
  fn_args.outputs_batch.data[i] = fn_args.label_batch.data[i]

\* The exact sum of |output - target| over example i, in units of
\* 2^scale.
RECURSIVE SumAbsTo(_, _)
SumAbsTo(i, j) ==
  IF j = 0 THEN 0
  ELSE SumAbsTo(i, j - 1)
       + Abs(fn_args.outputs_batch.data[i][j] - fn_args.label_batch.data[i][j])

\* The exact mean absolute difference of example i is at least the
\* smallest normal float32, 2^-126 (the units are 2^-149).
MeanIsNormal(i) ==
  /\ fn_args.outputs_batch.scale = MinExp
  /\ SumAbsTo(i, ImgLen) >= ImgLen * TwoP23

LossReturned ==
  /\ fn_ret # None
  /\ fn_args # None
  /\ "outputs_batch" \in DOMAIN fn_args

\* C8 as stated: every per-example loss is non-negative, and it is zero
\* only when (and whenever) the outputs exactly match the targets.
C8_ZeroOnlyOnMatch ==
  LossReturned =>
    \A i \in 1 .. Len(fn_ret) :
      /\ fn_ret[i].m >= 0
      /\ (fn_ret[i].m = 0 <=> RowsMatch(i))

\* C8, amended: for finite inputs every per-example loss is non-negative,
\* is exactly zero when the outputs match the targets (no regularization
\* term is added), and is non-zero whenever the exact mean absolute
\* difference is at least the smallest normal float32; below that the
\* float32 mean can round to zero although outputs and targets differ.
C8_ZeroOnMatchNonZeroAboveUnderflow ==
  LossReturned =>
    /\ Len(fn_ret) = Len(fn_args.outputs_batch.data)
    /\ \A i \in 1 .. Len(fn_ret) :
         /\ fn_ret[i].m >= 0
         /\ (RowsMatch(i) => fn_ret[i] = FZero)
         /\ (MeanIsNormal(i) => fn_ret[i].m # 0)

\* A batch of two examples whose outputs differ from the targets by a
\* mean in the normal range has a non-zero loss.
C8_Witness ==
  /\ LossReturned
  /\ Len(fn_ret) = 2
  /\ \A i \in 1 .. 2 : ~RowsMatch(i) /\ MeanIsNormal(i) /\ fn_ret[i].m # 0

\* The control thread is inside _eval_model_on_split.
InCall == pc \in {"loop", "eval"}

\* What an iterator was built from: everything but its position.
BuiltAs(it) == [it EXCEPT !.pos = 0]

\* C1: build_input_queue is called at most once per split, on the first
\* evaluation of the split, and a cached iterator stays the one that call
\* built: later calls on the split build nothing and replace nothing,
\* whatever rng, data_dir and global_batch_size they pass.
C1_IteratorBuiltOnce ==
  /\ [](\A s \in Splits :
          /\ build_calls[s] <= 1
          /\ (_eval_iters[s] # None => build_calls[s] = 1))
  /\ [][\A s \in Splits :
          _eval_iters[s] # None =>
            /\ _eval_iters'[s] # None
            /\ BuiltAs(_eval_iters'[s]) = BuiltAs(_eval_iters[s])
            /\ build_calls'[s] = build_calls[s]]_vars

\* A second call on a split runs with another rng, data_dir and
\* global_batch_size than the cached iterator was built with.
C1_Witness ==
  /\ pc = "eval"
  /\ calls = 2
  /\ build_calls[frame.split] = 1
  /\ _eval_iters[frame.split].global_batch_size # frame.global_batch_size
  /\ _eval_iters[frame.split].data_dir # frame.data_dir
  /\ _eval_iters[frame.split].data_rng # PrngSplit(frame.rng, 2)[1]
  /\ _eval_iters[frame.split].pos > frame.next_calls

\* C7: a failure of next(...) or of _eval_model leaves the call at once:
\* the failed operation was attempted once and not again, nothing after
\* it in the loop ran, and the call returns no metrics.
C7_FailureIsFatal ==
  (raised # None /\ raised.in \in {"next", "_eval_model"}) =>
    /\ pc = "raised"
    /\ ret = None
    /\ frame.next_calls =
         Len(frame.pulled) + (IF raised.in = "next" THEN 1 ELSE 0)
    /\ frame.eval_calls =
         frame.i + (IF raised.in = "_eval_model" THEN 1 ELSE 0)
    /\ frame.next_calls = frame.eval_calls + (IF raised.in = "next" THEN 1 ELSE 0)

\* _eval_model failed on the second batch of a call: the sums of the
\* first batch are lost with the call.
C7_Witness ==
  /\ raised # None
  /\ raised.in = "_eval_model"
  /\ frame.i = 1
  /\ frame.num_batches > 1
  /\ frame.total_metrics.weight > 0
  /\ ret = None

\* The model states a caller may hand to model_fn.
ModelStates == {None, <<"batch_stats">>}

\* model_fn and init_model_fn return a null auxiliary state.
AuxiliaryIsNull ==
  /\ \A rng \in RngKeys : init_model_fn(rng).returns[2] = None
  /\ params # None => model_state = None
  /\ (frame # None /\ frame.batch # None) =>
       \A ms \in ModelStates, mode \in ForwardPassMode, upd \in BOOLEAN :
         model_fn(params[1], frame.batch[1], ms, mode, frame.eval_rngs[1],
                  0, None, upd)[2] = None

\* C9: a step of an evaluation call changes nothing of the workload or
\* of the harness but the iterator cache and the position of the
\* evaluated split's iterator (parameters, parameter shapes, model state,
\* the data and every other split's iterator stay as they are), and
\* model_fn and init_model_fn return a null auxiliary state.
C9_FrameOfEvaluation ==
  /\ []AuxiliaryIsNull
  /\ [][params # None =>
          /\ params' = params
          /\ _param_shapes' = _param_shapes
          /\ model_state' = model_state
          /\ dataset' = dataset
          /\ \A s \in Splits :
               /\ (frame' = None \/ s # frame'.split) =>
                    _eval_iters'[s] = _eval_iters[s]
               /\ _eval_iters[s] # None =>
                    /\ _eval_iters'[s] # None
                    /\ BuiltAs(_eval_iters'[s]) = BuiltAs(_eval_iters[s])]_vars

\* A second call has pulled a batch of one split while the other split's
\* iterator, advanced by the first call, is cached.
C9_Witness ==
  /\ pc = "eval"
  /\ calls = 2
  /\ frame.batch # None
  /\ _eval_iters[frame.split].pos > 0
  /\ \E s \in Splits :
       /\ s # frame.split
       /\ _eval_iters[s] # None
       /\ _eval_iters[s].pos > 0

\* Batches of the current call on split s that are still to be pulled.
ToPull(s) ==
  IF InCall /\ frame.split = s THEN frame.num_batches - Len(frame.pulled)
  ELSE 0

\* C10: an iterator is never reset: the batches consumed from a split's
\* iterator are the sum of ceil(num_examples / global_batch_size) over
\* all calls made on that split (less those the running call has yet to
\* pull), and calls on another split do not move it.
C10_NeverReset ==
  raised = None =>
    \A s \in Splits :
      /\ _eval_iters[s] = None => due[s] = 0
      /\ _eval_iters[s] # None => _eval_iters[s].pos = due[s] - ToPull(s)

\* Two calls on one split have returned: the second began where the
\* first stopped, past the end of the first pass over the data.
C10_Witness ==
  /\ pc = "idle"
  /\ calls = 2
  /\ ret # None
  /\ eval_log[frame.split] # None
  /\ _eval_iters[frame.split].pos > Len(frame.pulled)
  /\ frame.pulled[1] > 0
  /\ _eval_iters[frame.split].pos > Len(dataset[frame.split])

\* The last call has ended, by returning or by raising.
CallEnded == frame # None /\ pc \in {"idle", "raised"}

\* C2: a call pulls exactly ceil(num_examples / global_batch_size)
\* batches (the least count whose batches hold num_examples examples),
\* runs the batch evaluator once per batch pulled, and ends after that
\* many steps.
C2_CeilingBatches ==
  /\ [](frame # None =>
          /\ frame.eval_calls <= frame.next_calls
          /\ frame.next_calls <= frame.eval_calls + 1
          /\ frame.next_calls > 0 =>
               (frame.next_calls - 1) * frame.global_batch_size < frame.num_examples
          /\ CallEnded =>
               /\ frame.next_calls * frame.global_batch_size >= frame.num_examples
               /\ frame.eval_calls = frame.next_calls
               /\ Len(frame.pulled) = frame.next_calls)
  /\ (InCall ~> CallEnded)

\* A call with three examples in batches of two has returned after two
\* batches.
C2_Witness ==
  /\ CallEnded
  /\ ret # None
  /\ frame.num_examples = 3
  /\ frame.global_batch_size = 2
  /\ frame.next_calls = 2
  /\ frame.eval_calls = 2

\* The batch the iterator of split s yields at position p.
BatchAt(s, p) == BatchOf(dataset[s][(p % Len(dataset[s])) + 1])

\* The metrics of one device's shard with the network in evaluation mode
\* (no dropout, whatever the key).
ShardMetrics(shard, device_params, rng) ==
  CHOOSE r \in {[ssim   |-> FSum(ssim(shard.targets, outputs, shard.mean,
                                      shard.std, shard.volume_max)),
                 loss   |-> FSum(loss_fn(shard.targets, outputs)),
                 weight |-> NatSum(shard.weights)] :
                  outputs \in {UNetApply(device_params, shard.inputs, rng,
                                         FALSE, 0)}} : TRUE

\* The sums of the metrics over every example of a batch: each device's
\* shard once.
BatchSums(batch) ==
  CHOOSE r \in {[ssim   |-> FSum([d \in Devices |-> per[d].ssim]),
                 loss   |-> FSum([d \in Devices |-> per[d].loss]),
                 weight |-> NatSum([d \in Devices |-> per[d].weight])] :
                  per \in {[d \in Devices |->
                             ShardMetrics(batch[d], params[d],
                                          frame.eval_rngs[d])]}} : TRUE

\* The sums of the metrics over the batches the call pulled, added batch
\* by batch in the order pulled.
PulledSums ==
  CHOOSE r \in {[ssim   |-> FSum([i \in DOMAIN per |-> per[i].ssim]),
                 loss   |-> FSum([i \in DOMAIN per |-> per[i].loss]),
                 weight |-> NatSum([i \in DOMAIN per |-> per[i].weight])] :
                  per \in {[i \in 1 .. Len(frame.pulled) |->
                             BatchSums(BatchAt(frame.split, frame.pulled[i]))]}} : TRUE

\* C3: a call returns exactly the keys ssim and loss, each the sum of the
\* metric over the batches pulled divided by the sum of the weights of
\* those batches (the weight accumulated over the loop, not the
\* num_examples argument).
C3_ReturnedMetrics ==
  ret # None =>
    /\ DOMAIN ret = {"ssim", "loss"}
    /\ \E sums \in {PulledSums} :
         \A k \in {"ssim", "loss"} : ret[k] = Quotient(sums[k], sums.weight)

\* A call returned metrics over a total weight that differs from its
\* num_examples argument.
C3_Witness ==
  /\ ret # None
  /\ Len(frame.pulled) >= 2
  /\ frame.total_metrics.weight # frame.num_examples
  /\ frame.total_metrics.weight > 0
  /\ ret.loss.m # 0

\* C4: _eval_model runs the network in evaluation mode with dropout off
\* and no model state; after the psum every device holds the same sums,
\* those over the shards of all devices; and the loop adds the sums of
\* one device only, so that each step adds every example of the batch
\* once.
C4_CombinedOncePerExample ==
  [][(pc = "eval" /\ pc' = "loop") =>
       /\ frame'.forward.mode = "EVAL"
       /\ frame'.forward.dropout_rate = 0
       /\ frame'.forward.model_state = None
       /\ \E sums \in {BatchSums(frame.batch)} :
            /\ \A k \in MetricKeys : \A d \in Devices :
                 frame'.synced_metrics[k][d] = sums[k]
            /\ frame'.total_metrics.weight =
                 frame.total_metrics.weight + sums.weight
            /\ \A k \in {"ssim", "loss"} :
                 frame'.total_metrics[k] = FAdd(frame.total_metrics[k], sums[k])]_vars

\* Two batches were evaluated, the last one with real examples on more
\* than one device.
C4_Witness ==
  /\ frame # None
  /\ frame.synced_metrics # None
  /\ pc = "loop"
  /\ frame.i = 2
  /\ \A d \in Devices : NatSum(frame.batch[d].weights) > 0
  /\ frame.total_metrics.weight > NatSum(frame.batch[1].weights)
  /\ \A d \in Devices :
       frame.synced_metrics["weight"][d] = frame.synced_metrics["weight"][1]

\* The kinds of the batches the last returned call on split s pulled.
KindsPulled(s) ==
  [i \in 1 .. Len(eval_log[s].pulled) |->
    dataset[s][(eval_log[s].pulled[i] % Len(dataset[s])) + 1]]

\* How many times kind k is among the batches pulled on split s.
TimesPulled(s, k) ==
  Cardinality({i \in 1 .. Len(eval_log[s].pulled) : KindsPulled(s)[i] = k})

\* Both splits were evaluated by calls with the same arguments over the
\* same batches, in any order.
SameBatches ==
  /\ eval_log["validation"] # None
  /\ eval_log["test"] # None
  /\ eval_log["validation"].num_examples = eval_log["test"].num_examples
  /\ eval_log["validation"].global_batch_size = eval_log["test"].global_batch_size
  /\ \A k \in BatchKinds : TimesPulled("validation", k) = TimesPulled("test", k)

\* C5 as stated: the metrics of a call do not depend on the order in
\* which the batches are pulled.
C5_OrderInvariant ==
  SameBatches => eval_log["validation"].metrics = eval_log["test"].metrics

\* C5, amended: the metrics do not depend on the order of the batches as
\* long as no addition of the accumulation rounds; float32 addition is
\* not associative, so an order in which a sum rounds can give other
\* metrics.
C5_OrderInvariantWhenExact ==
  (SameBatches /\ ~eval_log["validation"].rounded /\ ~eval_log["test"].rounded) =>
    eval_log["validation"].metrics = eval_log["test"].metrics

\* The two splits were evaluated over the same two batches in opposite
\* orders, no addition rounded.
C5_Witness ==
  /\ SameBatches
  /\ ~eval_log["validation"].rounded
  /\ ~eval_log["test"].rounded
  /\ Len(eval_log["test"].pulled) = 2
  /\ KindsPulled("validation")[1] = KindsPulled("test")[2]
  /\ KindsPulled("validation")[2] = KindsPulled("test")[1]
  /\ KindsPulled("test")[1] # KindsPulled("test")[2]
  /\ eval_log["test"].metrics.loss.m # 0
====
